---- MODULE Spec2Model ----
(***************************************************************************)
(* Model of the CrosstabKite gists:                                        *)
(*   events_to_durations.py   event log -> duration table                  *)
(*   events_to_conversions.py event log -> conversion table                *)
(*   durations_to_survival.py duration table -> life table (KM / NA)       *)
(*                                                                         *)
(* A DataFrame is a sequence of row records; its RangeIndex labels are the *)
(* positions of the sequence.  A table indexed by a column (the result of  *)
(* groupby / set_index) is a function from the index values to records.    *)
(* Timestamps are integers counting clock ticks, TicksPerDay ticks a day.  *)
(* Fractions (survival probabilities, hazards, days) are pairs <<n, d>>.   *)
(***************************************************************************)
EXTENDS Integers, Sequences, FiniteSets, TLC

\* ---------------------------------------------------------------- bounds
MaxTime == 1
MaxRows == 3
TicksPerDay == 2
MaxDuration == 6
MaxRecords == 4

\* the visitor ids of the log
Units == {1, 2}
Timestamps == 0..MaxTime
EventTypes == {"view", "transaction"}

\* pandas' missing value for a timestamp / timedelta column, and for an
\* object column
NaT == -1
NaN == "NaN"

\* the factor of conversion_pct
Percent == 100

VARIABLES
    pc,          \* position of the events_to_* script
    df,          \* the module-level event log read from events.csv
    endpoints,   \* the event types passed as endpoints / conversion_events
    durations,   \* the table returned by events_to_durations
    ttc,         \* the table returned by events_to_conversions
    error,       \* the exception that ended the events_to_* script, if any
    spc,         \* position of the durations_to_survival script
    sdurations,  \* `durations` of durations_to_survival.py (the parquet table)
    survival     \* `survival` of durations_to_survival.py

vars == <<pc, df, endpoints, durations, ttc, error, spc, sdurations, survival>>
evars == <<pc, df, endpoints, durations, ttc, error>>
svars == <<spc, sdurations, survival>>

\* ------------------------------------------------------- pandas helpers
SetMin(S) == CHOOSE x \in S : \A y \in S : x <= y
SetMax(S) == CHOOSE x \in S : \A y \in S : x >= y

\* Series.min() / Series.max() of a timestamp column: NaT when empty
ColMin(S) == IF S = {} THEN NaT ELSE SetMin(S)
ColMax(S) == IF S = {} THEN NaT ELSE SetMax(S)

\* variant: the first row of the frame is skipped by the grouping
UnitsOf_SkipFirst(log) == {log[i].unit : i \in DOMAIN log \ {1}}

\* df[unit].nunique() and the group keys of df.groupby(unit)
UnitsOf(log) == {log[i].unit : i \in DOMAIN log}

\* grp[timestamp].min() for the group of unit u
GroupMin(log, u) == SetMin({log[i].timestamp : i \in {j \in DOMAIN log : log[j].unit = u}})

\* variant: the filter keeps the rows whose type is not an endpoint
IsIn_Negated(log, types) == {i \in DOMAIN log : log[i].event \notin types}

\* event_log.loc[event_log[event].isin(endpoints)]: the row labels kept
IsIn(log, types) == {i \in DOMAIN log : log[i].event \in types}

\* variant: the label of the last occurrence of the minimum
IdxMin_Last(log, rows, u) ==
    LET g == {i \in rows : log[i].unit = u}
    IN  CHOOSE i \in g : \A j \in g :
            \/ log[i].timestamp < log[j].timestamp
            \/ log[i].timestamp = log[j].timestamp /\ i >= j

\* grp[timestamp].idxmin() for the group of unit u among the kept rows:
\* the label of the first occurrence of the minimum
IdxMin(log, rows, u) ==
    LET g == {i \in rows : log[i].unit = u}
    IN  CHOOSE i \in g : \A j \in g :
            \/ log[i].timestamp < log[j].timestamp
            \/ log[i].timestamp = log[j].timestamp /\ i <= j

\* df.iloc[labels].set_index(unit): positional rows of frame, keyed by unit
IlocByUnit(frame, labels) ==
    LET picked == {frame[i] : i \in labels}
    IN  [u \in {r.unit : r \in picked} |-> CHOOSE r \in picked : r.unit = u]

\* column alignment on the unit index: missing where the unit has no row
Aligned(tbl, u, col, missing) == IF u \in DOMAIN tbl THEN tbl[u][col] ELSE missing

\* variant: the in-place fill acts on a copy and is lost
FillNa_Lost(x, value) == x

\* Series.fillna(value)
FillNa(x, value) == IF x = NaT THEN value ELSE x

\* variant: the operands are swapped
TimeDiff_Swapped(a, b) == IF a = NaT \/ b = NaT THEN NaT ELSE b - a

\* subtraction of two timestamps; NaT propagates
TimeDiff(a, b) == IF a = NaT \/ b = NaT THEN NaT ELSE a - b

\* duration.dt.total_seconds() / (60 * 60 * 24): a fraction of days
TotalDays(ticks) == <<ticks, TicksPerDay>>

\* ------------------------------------------------ events_to_durations
events_to_durations(event_log, frame, types) ==
    LET entry == [u \in UnitsOf(event_log) |-> GroupMin(event_log, u)]
        rows == IsIn(event_log, types)
        endpoint_events == {IdxMin(event_log, rows, u) : u \in {event_log[i].unit : i \in rows}}
        df_endpoint == IlocByUnit(frame, endpoint_events)
        censoring_time == ColMax({frame[i].timestamp : i \in DOMAIN frame})
    IN  [u \in DOMAIN entry |->
            LET endpoint_time == Aligned(df_endpoint, u, "timestamp", NaT)
                final_obs_time == FillNa(endpoint_time, censoring_time)
            IN  [entry_time |-> entry[u],
                 endpoint |-> Aligned(df_endpoint, u, "event", NaN),
                 endpoint_time |-> endpoint_time,
                 final_obs_time |-> final_obs_time,
                 duration |-> TimeDiff(final_obs_time, entry[u])]]

\* ----------------------------------------------- events_to_conversions
\* the body reads the module-level df throughout; `data` is not used
events_to_conversions(data, frame, types) ==
    LET entry == [u \in UnitsOf(frame) |-> GroupMin(frame, u)]
        rows == IsIn(frame, types)
        conversions == {IdxMin(frame, rows, u) : u \in {frame[i].unit : i \in rows}}
        df_convert == IlocByUnit(frame, conversions)
        censoring_time == ColMax({frame[i].timestamp : i \in DOMAIN frame})
    IN  [u \in DOMAIN entry |->
            LET conversion_time == Aligned(df_convert, u, "timestamp", NaT)
                final_obs_time == FillNa(conversion_time, censoring_time)
            IN  [entry_time |-> entry[u],
                 conversion_time |-> conversion_time,
                 conversion_event |-> Aligned(df_convert, u, "event", NaN),
                 final_obs_time |-> final_obs_time,
                 duration |-> TimeDiff(final_obs_time, entry[u])]]

\* --------------------------------------------------------------- state
Init ==
    /\ pc = "read"
    /\ df = <<>>
    /\ endpoints = {}
    /\ durations = <<>>
    /\ ttc = <<>>
    /\ error = "none"
    /\ spc = "load"
    /\ sdurations = <<>>
    /\ survival = <<>>

\* pd.read_csv: one more row of events.csv
ReadCsvRow ==
    /\ pc = "read"
    /\ Len(df) < MaxRows
    /\ \E u \in Units, t \in Timestamps, e \in EventTypes :
          df' = Append(df, [unit |-> u, timestamp |-> t, event |-> e])
    /\ UNCHANGED <<pc, endpoints, durations, ttc, error>>
    /\ UNCHANGED svars

\* durations = events_to_durations(df, ..., endpoints=[...])
CallEventsToDurations ==
    /\ pc = "read"
    /\ \E types \in SUBSET EventTypes :
          /\ endpoints' = types
          /\ durations' = events_to_durations(df, df, types)
    /\ pc' = "durations_sanity"
    /\ UNCHANGED <<df, ttc, error>>
    /\ UNCHANGED svars

\* the three assertions after the call
DurationsSanityHolds ==
    /\ Cardinality(DOMAIN durations) = Cardinality(UnitsOf(df))
    /\ LET lhs == ColMax({durations[u].duration : u \in DOMAIN durations})
           rhs == TimeDiff(ColMax({df[i].timestamp : i \in DOMAIN df}),
                           ColMin({df[i].timestamp : i \in DOMAIN df}))
       IN  lhs # NaT /\ rhs # NaT /\ lhs <= rhs
    /\ Cardinality({u \in DOMAIN durations : durations[u].endpoint_time # NaT})
          <= Cardinality(IsIn(df, endpoints))

DurationsSanityCheck ==
    /\ pc = "durations_sanity"
    /\ IF DurationsSanityHolds
          THEN pc' = "extra" /\ error' = error
          ELSE pc' = "stopped" /\ error' = "AssertionError"
    /\ UNCHANGED <<df, endpoints, durations, ttc>>
    /\ UNCHANGED svars

\* variant: isnull() in place of notnull()
EndpointObserved_IsNull(row) == row.endpoint = NaN

\* durations["endpoint"].notnull()
EndpointObserved(row) == row.endpoint # NaN

\* durations["endpoint_observed"], durations["duration_days"]
ExtraPreprocessing ==
    /\ pc = "extra"
    /\ durations' = [u \in DOMAIN durations |->
          [entry_time |-> durations[u].entry_time,
           endpoint |-> durations[u].endpoint,
           endpoint_time |-> durations[u].endpoint_time,
           final_obs_time |-> durations[u].final_obs_time,
           duration |-> durations[u].duration,
           endpoint_observed |-> EndpointObserved(durations[u]),
           duration_days |-> TotalDays(durations[u].duration)]]
    /\ pc' = "done"
    /\ UNCHANGED <<df, endpoints, ttc, error>>
    /\ UNCHANGED svars

\* ttc = events_to_conversions(df, ..., conversion_events=[...])
CallEventsToConversions ==
    /\ pc = "read"
    /\ \E types \in SUBSET EventTypes :
          /\ endpoints' = types
          /\ ttc' = events_to_conversions(df, df, types)
    /\ pc' = "ttc_sanity"
    /\ UNCHANGED <<df, durations, error>>
    /\ UNCHANGED svars

TtcSanityHolds ==
    /\ Cardinality(DOMAIN ttc) = Cardinality(UnitsOf(df))
    /\ LET lhs == ColMax({ttc[u].duration : u \in DOMAIN ttc})
           rhs == TimeDiff(ColMax({df[i].timestamp : i \in DOMAIN df}),
                           ColMin({df[i].timestamp : i \in DOMAIN df}))
       IN  lhs # NaT /\ rhs # NaT /\ lhs <= rhs
    /\ Cardinality({u \in DOMAIN ttc : ttc[u].conversion_time # NaT})
          <= Cardinality(IsIn(df, endpoints))

TtcSanityCheck ==
    /\ pc = "ttc_sanity"
    /\ IF TtcSanityHolds
          THEN pc' = "ttc_done" /\ error' = error
          ELSE pc' = "stopped" /\ error' = "AssertionError"
    /\ UNCHANGED <<df, endpoints, durations, ttc>>
    /\ UNCHANGED svars

NextEvents ==
    \/ ReadCsvRow
    \/ CallEventsToDurations
    \/ DurationsSanityCheck
    \/ ExtraPreprocessing
    \/ CallEventsToConversions
    \/ TtcSanityCheck

SpecEvents == Init /\ [][NextEvents]_vars

\* ------------------------------------------------ durations_to_survival
\* np.ceil(x).astype(int) of a fraction with a positive denominator
Ceil(x) == (x[1] + x[2] - 1) \div x[2]

FracMul(a, b) == <<a[1] * b[1], a[2] * b[2]>>
FracAdd(a, b) == <<a[1] * b[2] + b[1] * a[2], a[2] * b[2]>>

\* a column of a table, as a Series over the table's index
Col(tbl, c) == [k \in DOMAIN tbl |-> tbl[k][c]]

\* DataFrame.insert / df[name] = series
AddCol(tbl, name, series) == [k \in DOMAIN tbl |-> (name :> series[k]) @@ tbl[k]]

\* Series.cumsum() over the ascending index
RECURSIVE CumSum(_, _)
CumSum(series, k) ==
    LET before == {j \in DOMAIN series : j < k}
    IN  IF before = {} THEN series[k]
        ELSE CumSum(series, SetMax(before)) + series[k]

\* Series.cumsum() of fractions
RECURSIVE FracCumSum(_, _)
FracCumSum(series, k) ==
    LET before == {j \in DOMAIN series : j < k}
    IN  IF before = {} THEN series[k]
        ELSE FracAdd(FracCumSum(series, SetMax(before)), series[k])

\* variant: cumsum() in place of cumprod()
FracCumProd_Sum(series, k) == FracCumSum(series, k)

\* Series.cumprod() of fractions
RECURSIVE FracCumProd(_, _)
FracCumProd(series, k) ==
    LET before == {j \in DOMAIN series : j < k}
    IN  IF before = {} THEN series[k]
        ELSE FracMul(FracCumProd(series, SetMax(before)), series[k])

\* Series.shift(1, fill_value): each row takes the value of the row before
ShiftDown(series, fill_value) ==
    [k \in DOMAIN series |->
        LET before == {j \in DOMAIN series : j < k}
        IN  IF before = {} THEN fill_value ELSE series[SetMax(before)]]

\* variant: shift(1) in place of shift(-1)
ShiftUp_Down(series, fill_value) == ShiftDown(series, fill_value)

\* Series.shift(-1, fill_value): each row takes the value of the row after
ShiftUp(series, fill_value) ==
    [k \in DOMAIN series |->
        LET after == {j \in DOMAIN series : j > k}
        IN  IF after = {} THEN fill_value ELSE series[SetMin(after)]]

\* grp.size() and grp["endpoint_observed"].sum() per duration_days
GroupSize(frame, k) == Cardinality({i \in DOMAIN frame : frame[i].duration_days = k})
GroupEvents(frame, k) ==
    Cardinality({i \in DOMAIN frame :
                    frame[i].duration_days = k /\ frame[i].endpoint_observed})

\* pd.read_parquet: one more row of the durations table
ReadParquetRow ==
    /\ spc = "load"
    /\ Len(sdurations) < MaxRecords
    /\ \E d \in 0..MaxDuration, o \in BOOLEAN :
          sdurations' = Append(sdurations,
              [duration_days |-> TotalDays(d), endpoint_observed |-> o])
    /\ UNCHANGED <<spc, survival>>
    /\ UNCHANGED evars

\* durations["duration_days"] = np.ceil(...).astype(int); groupby
GroupByDurationDays ==
    /\ spc = "load"
    /\ LET rounded == [i \in DOMAIN sdurations |->
               [duration_days |-> Ceil(sdurations[i].duration_days),
                endpoint_observed |-> sdurations[i].endpoint_observed]]
       IN  /\ sdurations' = rounded
           /\ survival' = [k \in {rounded[i].duration_days : i \in DOMAIN rounded} |->
                  [num_obs |-> GroupSize(rounded, k),
                   events |-> GroupEvents(rounded, k)]]
    /\ spc' = "at_risk"
    /\ UNCHANGED evars

\* at_risk = num_subjects - prior_count; keep the rows with an event
AtRiskEventRows ==
    /\ spc = "at_risk"
    /\ LET num_subjects == Len(sdurations)
           num_obs == Col(survival, "num_obs")
           prior_count == ShiftDown([k \in DOMAIN survival |-> CumSum(num_obs, k)], 0)
           with_at_risk == AddCol(survival, "at_risk",
                              [k \in DOMAIN survival |-> num_subjects - prior_count[k]])
       IN  survival' = [k \in {j \in DOMAIN with_at_risk : with_at_risk[j].events > 0}
                           |-> with_at_risk[k]]
    /\ spc' = "censored"
    /\ UNCHANGED sdurations
    /\ UNCHANGED evars

\* variant: the events are not subtracted
CensoredColumn_KeepEvents(tbl) ==
    LET at_risk == Col(tbl, "at_risk")
        next_at_risk == ShiftUp(at_risk, 0)
    IN  [k \in DOMAIN tbl |-> at_risk[k] - next_at_risk[k]]

\* censored = at_risk - at_risk.shift(-1, fill_value=0) - events
CensoredColumn(tbl) ==
    LET at_risk == Col(tbl, "at_risk")
        next_at_risk == ShiftUp(at_risk, 0)
    IN  [k \in DOMAIN tbl |-> at_risk[k] - next_at_risk[k] - tbl[k].events]

Censored ==
    /\ spc = "censored"
    /\ survival' = AddCol(survival, "censored", CensoredColumn(survival))
    /\ spc' = "kaplan_meier"
    /\ UNCHANGED sdurations
    /\ UNCHANGED evars

\* inverse_hazard = 1 - events / at_risk
InverseHazard(tbl) ==
    [k \in DOMAIN tbl |-> <<tbl[k].at_risk - tbl[k].events, tbl[k].at_risk>>]

\* survival_proba = inverse_hazard.cumprod(); conversion_pct
KaplanMeier ==
    /\ spc = "kaplan_meier"
    /\ LET inverse_hazard == InverseHazard(survival)
           proba == [k \in DOMAIN survival |-> FracCumProd(inverse_hazard, k)]
           with_proba == AddCol(survival, "survival_proba", proba)
       IN  survival' = AddCol(with_proba, "conversion_pct",
               [k \in DOMAIN survival |-> <<Percent * (proba[k][2] - proba[k][1]), proba[k][2]>>])
    /\ spc' = "nelson_aalen"
    /\ UNCHANGED sdurations
    /\ UNCHANGED evars

\* cumulative_hazard = (events / at_risk).cumsum()
NelsonAalen ==
    /\ spc = "nelson_aalen"
    /\ LET hazard == [k \in DOMAIN survival |-> <<survival[k].events, survival[k].at_risk>>]
       IN  survival' = AddCol(survival, "cumulative_hazard",
               [k \in DOMAIN survival |-> FracCumSum(hazard, k)])
    /\ spc' = "done"
    /\ UNCHANGED sdurations
    /\ UNCHANGED evars

NextSurvival ==
    \/ ReadParquetRow
    \/ GroupByDurationDays
    \/ AtRiskEventRows
    \/ Censored
    \/ KaplanMeier
    \/ NelsonAalen

SpecSurvival == Init /\ [][NextSurvival]_vars

\* ================================================================ claims
DurationsReturned == pc \in {"durations_sanity", "extra", "done"}
TtcReturned == pc \in {"ttc_sanity", "ttc_done"}
LogUnits == {df[i].unit : i \in 1..Len(df)}
LogTimes == {df[i].timestamp : i \in 1..Len(df)}
EndpointRows(u) == {i \in 1..Len(df) : df[i].unit = u /\ df[i].event \in endpoints}

\* the endpoint row of unit u a correct aggregator selects: minimum
\* timestamp, first in input order among the rows sharing it
IsEarliestFirst(u, i) ==
    /\ i \in EndpointRows(u)
    /\ \A j \in EndpointRows(u) : df[i].timestamp <= df[j].timestamp
    /\ \A j \in EndpointRows(u) : df[j].timestamp = df[i].timestamp => i <= j

C2_EarliestEndpoint ==
    /\ DurationsReturned => \A u \in DOMAIN durations :
          /\ (durations[u].endpoint_time # NaT) <=> (EndpointRows(u) # {})
          /\ (durations[u].endpoint # NaN) <=> (EndpointRows(u) # {})
          /\ \A i \in EndpointRows(u) : IsEarliestFirst(u, i) =>
                /\ durations[u].endpoint_time = df[i].timestamp
                /\ durations[u].endpoint = df[i].event
    /\ TtcReturned => \A u \in DOMAIN ttc :
          /\ (ttc[u].conversion_time # NaT) <=> (EndpointRows(u) # {})
          /\ (ttc[u].conversion_event # NaN) <=> (EndpointRows(u) # {})
          /\ \A i \in EndpointRows(u) : IsEarliestFirst(u, i) =>
                /\ ttc[u].conversion_time = df[i].timestamp
                /\ ttc[u].conversion_event = df[i].event

\* a unit with two endpoint events of different types at its minimum
\* endpoint timestamp; the first of them was selected
C2_Witness ==
    /\ DurationsReturned
    /\ \E u \in DOMAIN durations : \E i, j \in EndpointRows(u) :
          /\ i < j
          /\ IsEarliestFirst(u, i)
          /\ df[j].timestamp = df[i].timestamp
          /\ df[j].event # df[i].event
          /\ durations[u].endpoint = df[i].event

C4_DurationRange ==
    (DurationsReturned /\ Len(df) > 0) => \A u \in DOMAIN durations :
        /\ durations[u].final_obs_time # NaT
        /\ durations[u].final_obs_time >= durations[u].entry_time
        /\ durations[u].duration = durations[u].final_obs_time - durations[u].entry_time
        /\ 0 <= durations[u].duration
        /\ \E lo \in LogTimes, hi \in LogTimes :
              /\ \A t \in LogTimes : lo <= t /\ t <= hi
              /\ durations[u].duration <= hi - lo

C4_Witness ==
    /\ DurationsReturned
    /\ \E u \in DOMAIN durations : durations[u].duration > 0
    /\ \E u \in DOMAIN durations : durations[u].duration = 0

\* C5: the records with an observed endpoint are at most as many as the
\* events of the log whose type is an endpoint
C5_ObservedAtMostEndpointEvents ==
    /\ DurationsReturned =>
          Cardinality({u \in DOMAIN durations : durations[u].endpoint_time # NaT})
             <= Cardinality({i \in 1..Len(df) : df[i].event \in endpoints})
    /\ TtcReturned =>
          Cardinality({u \in DOMAIN ttc : ttc[u].conversion_time # NaT})
             <= Cardinality({i \in 1..Len(df) : df[i].event \in endpoints})

\* two endpoint events of one unit collapse to one observed endpoint
C5_Witness ==
    /\ DurationsReturned
    /\ \E u \in DOMAIN durations : Cardinality(EndpointRows(u)) = 2
    /\ Cardinality({u \in DOMAIN durations : durations[u].endpoint_time # NaT}) = 1

\* C6 as stated: a log of one event yields one record with
\* entry_time = endpoint_time = final_obs_time, duration 0, observed
C6_SingleEventObserved ==
    (pc = "done" /\ Len(df) = 1) =>
        /\ Cardinality(DOMAIN durations) = 1
        /\ \A u \in DOMAIN durations :
              /\ durations[u].entry_time = durations[u].endpoint_time
              /\ durations[u].endpoint_time = durations[u].final_obs_time
              /\ durations[u].duration = 0
              /\ durations[u].endpoint_observed = TRUE

\* C6 amended: a log of one event yields one record with
\* entry_time = final_obs_time and duration 0; the endpoint is observed,
\* with endpoint_time = entry_time, exactly when the event's type is an
\* endpoint type, and is absent otherwise
C6_SingleEvent ==
    (pc = "done" /\ Len(df) = 1) =>
        /\ Cardinality(DOMAIN durations) = 1
        /\ \A u \in DOMAIN durations :
              /\ durations[u].entry_time = df[1].timestamp
              /\ durations[u].final_obs_time = durations[u].entry_time
              /\ durations[u].duration = 0
              /\ durations[u].endpoint_observed = (df[1].event \in endpoints)
              /\ df[1].event \in endpoints =>
                    durations[u].endpoint_time = durations[u].entry_time
              /\ df[1].event \notin endpoints =>
                    durations[u].endpoint_time = NaT

C6_Witness ==
    /\ pc = "done"
    /\ Len(df) = 1
    /\ df[1].event \in endpoints
    /\ \A u \in DOMAIN durations : durations[u].endpoint_observed

\* C7: on empty input each stage fails with InvalidInput and returns no
\* table: the aggregator on an empty log, the life-table builder on an
\* empty durations table
C7_EmptyInputFails ==
    /\ (Len(df) = 0 /\ pc # "read") => error = "InvalidInput"
    /\ Len(sdurations) = 0 => spc = "load"

\* ------------------------------------------------------------ life table
CensoredDone == spc \in {"kaplan_meier", "nelson_aalen", "done"}
ProbaDone == spc \in {"nelson_aalen", "done"}
Records == 1..Len(sdurations)
Buckets == {sdurations[i].duration_days : i \in Records}
RowsAfter(k) == {j \in DOMAIN survival : j > k}
RowsBefore(k) == {j \in DOMAIN survival : j < k}
NextRowAtRisk(k) ==
    IF RowsAfter(k) = {} THEN 0
    ELSE survival[CHOOSE j \in RowsAfter(k) : \A m \in RowsAfter(k) : j <= m].at_risk

\* C8 as stated: survival_proba is non-increasing along the rows and lies
\* in (0, 1]
C8_SurvivalPositive ==
    ProbaDone => \A k \in DOMAIN survival :
        /\ survival[k].survival_proba[2] > 0
        /\ survival[k].survival_proba[1] > 0
        /\ survival[k].survival_proba[1] <= survival[k].survival_proba[2]
        /\ \A j \in RowsAfter(k) :
              survival[j].survival_proba[1] * survival[k].survival_proba[2]
                 <= survival[k].survival_proba[1] * survival[j].survival_proba[2]

\* C8 amended: survival_proba is non-increasing along the rows and lies in
\* the closed interval [0, 1]
C8_SurvivalMonotone ==
    ProbaDone => \A k \in DOMAIN survival :
        /\ survival[k].survival_proba[2] > 0
        /\ survival[k].survival_proba[1] >= 0
        /\ survival[k].survival_proba[1] <= survival[k].survival_proba[2]
        /\ \A j \in RowsAfter(k) :
              survival[j].survival_proba[1] * survival[k].survival_proba[2]
                 <= survival[k].survival_proba[1] * survival[j].survival_proba[2]

\* rows whose survival strictly falls and ends at 0
C8_Witness ==
    /\ ProbaDone
    /\ Cardinality(DOMAIN survival) >= 2
    /\ \E k \in DOMAIN survival : survival[k].survival_proba[1] = 0
    /\ \E k \in DOMAIN survival : \E j \in RowsAfter(k) :
          /\ survival[k].survival_proba[1] > 0
          /\ survival[j].survival_proba[1] * survival[k].survival_proba[2]
                < survival[k].survival_proba[1] * survival[j].survival_proba[2]

\* C9: in every row, censored = at_risk - at_risk of the next row - events
\* is the number of unobserved records whose bucket lies from this row's
\* key up to, not including, the next row's key; so censored >= 0
C9_CensoredCount ==
    CensoredDone => \A k \in DOMAIN survival :
        /\ survival[k].censored = survival[k].at_risk - NextRowAtRisk(k) - survival[k].events
        /\ survival[k].censored =
              Cardinality({i \in Records :
                  /\ ~sdurations[i].endpoint_observed
                  /\ sdurations[i].duration_days >= k
                  /\ \A j \in RowsAfter(k) : sdurations[i].duration_days < j})
        /\ survival[k].censored >= 0

\* a row with censored records of its own bucket and of a dropped bucket
C9_Witness ==
    /\ CensoredDone
    /\ \E k \in DOMAIN survival :
          /\ RowsAfter(k) # {}
          /\ survival[k].censored = 2
          /\ \E i \in Records :
                ~sdurations[i].endpoint_observed /\ sdurations[i].duration_days = k
          /\ \E i \in Records :
                /\ sdurations[i].duration_days > k
                /\ sdurations[i].duration_days \notin DOMAIN survival
                /\ \A j \in RowsAfter(k) : sdurations[i].duration_days < j

\* the buckets dropped for having no event, and their sizes
Dropped == Buckets \ DOMAIN survival
BucketSize(b) == Cardinality({i \in Records : sdurations[i].duration_days = b})
BucketCensored(b) ==
    Cardinality({i \in Records :
        sdurations[i].duration_days = b /\ ~sdurations[i].endpoint_observed})

RECURSIVE SumOver(_, _)
SumOver(f, S) ==
    IF S = {} THEN 0
    ELSE LET x == CHOOSE y \in S : TRUE IN f[x] + SumOver(f, S \ {x})

\* the dropped buckets whose following surviving row is r
DroppedBefore(r) == {d \in Dropped : d < r /\ \A j \in RowsBefore(r) : j < d}
\* the dropped buckets whose preceding surviving row is r
DroppedAfter(r) == {d \in Dropped : d > r /\ \A j \in RowsAfter(r) : d < j}

====
